---- MODULE Spec2Model ----
(***************************************************************************)
(* Forecasting pipeline of HummingBird v2: prepare_data_for_prophet and    *)
(* prophet_forecast of forecasting.py.                                     *)
(*                                                                         *)
(* float64 values are records [k, v, u]: k is the class of the value       *)
(* ("fin", "nan", "inf", "-inf", or "ln" for a value in log space), v the  *)
(* value in tenths (Unit = 10 stands for 1.0) and u the rounding error in  *)
(* units of the last place that np.exp(np.log(.)) leaves behind.           *)
(* Timestamps are integer ticks; a calendar day is TicksPerDay ticks, so   *)
(* that pd.to_datetime of a RangeIndex position (nanoseconds after the     *)
(* epoch) is a timestamp too, different from every calendar date.          *)
(***************************************************************************)
EXTENDS Integers, Sequences, FiniteSets, TLC

\* ------------------------------------------------------------------ bounds
MaxRows == 2
MaxPeriods == 2

\* ------------------------------------------------------------- float64
Unit == 10
TicksPerDay == 10

Fin(v) == [k |-> "fin", v |-> v, u |-> 0]
NaN == [k |-> "nan", v |-> 0, u |-> 0]
PosInf == [k |-> "inf", v |-> 0, u |-> 0]
NegInf == [k |-> "-inf", v |-> 0, u |-> 0]
LnOf(x) == [k |-> "ln", v |-> x.v, u |-> x.u]

IsNaN(x) == x.k = "nan"
IsInf(x) == x.k \in {"inf", "-inf"}
IsFinite(x) == x.k \in {"fin", "ln"}

\* a < b on float64 (false when either side is NaN)
Lt(a, b) ==
    /\ ~IsNaN(a) /\ ~IsNaN(b)
    /\ \/ a.k = "-inf" /\ b.k # "-inf"
       \/ b.k = "inf" /\ a.k # "inf"
       \/ /\ a.k = b.k /\ IsFinite(a)
          /\ \/ a.v < b.v
             \/ a.v = b.v /\ a.u < b.u

Le(a, b) == ~IsNaN(a) /\ ~IsNaN(b) /\ ~Lt(b, a)

\* x * (num/den) for a positive factor
Mul(x, num, den) ==
    IF x.k = "fin" THEN [k |-> "fin", v |-> (x.v * num) \div den, u |-> x.u] ELSE x

\* sign of np.exp(np.log(x)) - x in float64 for x = v/Unit, v in 1..80
RoundTripErr(v) ==
    CASE v \in {1, 30, 37, 57, 62, 67, 68, 71, 73, 74, 78, 79} -> 1
      [] v \in {36, 39, 50, 63, 65, 66, 70, 75, 76, 80} -> 0 - 1
      [] OTHER -> 0

\* np.log
Log(x) ==
    CASE x.k = "fin" /\ x.v > 0 -> LnOf(x)
      [] x.k = "fin" /\ x.v = 0 -> NegInf
      [] x.k = "fin" /\ x.v < 0 -> NaN
      [] x.k = "inf" -> PosInf
      [] OTHER -> NaN

\* np.exp
Exp(x) ==
    CASE x.k = "ln" -> [k |-> "fin", v |-> x.v, u |-> x.u + RoundTripErr(x.v)]
      [] x.k = "-inf" -> Fin(0)
      [] x.k = "inf" -> PosInf
      [] OTHER -> NaN

\* Series.clip(upper=m): NaN stays NaN, a NaN threshold clips nothing
ClipUpper(x, m) == IF IsNaN(x) \/ IsNaN(m) THEN x ELSE IF Lt(m, x) THEN m ELSE x

\* Series.clip(lower=m)
ClipLower(x, m) == IF IsNaN(x) \/ IsNaN(m) THEN x ELSE IF Lt(x, m) THEN m ELSE x

\* str.lower on the names the model uses
Lower(s) ==
    CASE s = "Stocks" -> "stocks"
      [] s = "Crypto" -> "crypto"
      [] s = "Date" -> "date"
      [] s = "Time" -> "time"
      [] s = "Close" -> "close"
      [] s = "Price" -> "price"
      [] s = "Day" -> "day"
      [] OTHER -> s

\* ------------------------------------------------------------- sequences
RECURSIVE Filter(_, _)
Filter(s, keep) ==
    IF s = << >> THEN << >>
    ELSE (IF keep[1] THEN <<Head(s)>> ELSE << >>) \o Filter(Tail(s), Tail(keep))

\* one row into a sequence sorted by ds, after the rows with an equal ds
RECURSIVE InsertByDs(_, _)
InsertByDs(r, s) ==
    IF s = << >> THEN <<r>>
    ELSE IF r.ds < Head(s).ds THEN <<r>> \o s
    ELSE <<Head(s)>> \o InsertByDs(r, Tail(s))

\* DataFrame.sort_values('ds'): ascending, rows of equal ds in input order
RECURSIVE SortByDs(_)
SortByDs(s) ==
    IF s = << >> THEN << >>
    ELSE InsertByDs(s[Len(s)], SortByDs(SubSeq(s, 1, Len(s) - 1)))

\* ------------------------------------------------------------ input tables
\* A table: its index kind, its columns in order (name, dtype, and which
\* field of a row the column holds: the timestamp "t" or the value "v"),
\* and its rows [t, v] (t a calendar day, v a float64).
Col(n, d, h) == [name |-> n, dtype |-> d, holds |-> h]

DateNames == {"date", "timestamp", "time"}

HasCol(cols, n) == \E i \in 1..Len(cols) : cols[i].name = n

ColNamed(cols, n) == cols[CHOOSE i \in 1..Len(cols) : cols[i].name = n]

\* df[n] = <holds>: overwrite the column named n, or append it
SetCol(cols, n, d, h) ==
    IF HasCol(cols, n)
    THEN [i \in 1..Len(cols) |-> IF cols[i].name = n THEN Col(n, d, h) ELSE cols[i]]
    ELSE Append(cols, Col(n, d, h))

\* lines 27-29: a DatetimeIndex becomes the first column, named after the
\* index ('index' when unnamed, which the rename turns into 'ds')
ResetIndex(tb) ==
    CASE tb.index = "DatetimeIndex" -> <<Col("ds", "datetime", "t")>> \o tb.cols
      [] tb.index = "DatetimeIndexNamed" -> <<Col("Date", "datetime", "t")>> \o tb.cols
      [] OTHER -> tb.cols

\* line 34: the columns whose lower-cased name is a date name
DateCols(cols) == {i \in 1..Len(cols) : Lower(cols[i].name) \in DateNames}

\* line 36: rename the first date column to 'ds'
RenameFirstDateCol(cols) ==
    LET f == CHOOSE i \in DateCols(cols) : \A j \in DateCols(cols) : i <= j
    IN [i \in 1..Len(cols) |-> IF i = f THEN [cols[i] EXCEPT !.name = "ds"] ELSE cols[i]]

\* line 43: select_dtypes(include=[np.number]).columns
NumericCols(cols) == {i \in 1..Len(cols) : cols[i].dtype = "number"}

\* lines 32-40: the branch taken when a 'Close' column exists
CloseBranch(cols) ==
    LET withDs == IF HasCol(cols, "ds") THEN cols
                  ELSE IF DateCols(cols) # {} THEN RenameFirstDateCol(cols)
                  ELSE SetCol(cols, "ds", "int", "pos")
    IN SetCol(withDs, "y", ColNamed(withDs, "Close").dtype, ColNamed(withDs, "Close").holds)

\* lines 41-47: no 'Close' column: the first numeric column, ds from the index
NumericBranch(cols) ==
    IF NumericCols(cols) = {} THEN cols
    ELSE LET f == CHOOSE i \in NumericCols(cols) : \A j \in NumericCols(cols) : i <= j
             withDs == IF HasCol(cols, "ds") THEN cols ELSE SetCol(cols, "ds", "int", "pos")
         IN SetCol(withDs, "y", withDs[f].dtype, withDs[f].holds)

\* lines 26-47
SelectColumns(tb) ==
    LET cols == ResetIndex(tb)
    IN IF HasCol(cols, "Close") THEN CloseBranch(cols) ELSE NumericBranch(cols)

\* what a column holds in row i of the table
Cell(tb, c, i) ==
    CASE c.holds = "t" -> tb.rows[i].t * TicksPerDay
      [] c.holds = "pos" -> i - 1
      [] OTHER -> tb.rows[i].v

\* line 58: DataFrame.dropna drops NaN (and NaT), and keeps +-inf
DropNa(s) == Filter(s, [i \in 1..Len(s) |-> ~IsNaN(s[i].y)])

\* line 56: df[['ds','y']].sort_values('ds').reset_index(drop=True); no row
\* is removed, rows of equal ds stay next to each other
SortRows(s) == SortByDs(s)

\* prepare_data_for_prophet that also fails when no row is left
PrepareDataRaiseEmpty(tb) ==
    LET cols == SelectColumns(tb)
        rows == [i \in 1..Len(tb.rows) |->
                    [ds |-> Cell(tb, ColNamed(cols, "ds"), i),
                     y |-> Cell(tb, ColNamed(cols, "y"), i)]]
    IN IF ~HasCol(cols, "ds") \/ ~HasCol(cols, "y")
       THEN [raised |-> TRUE, df |-> << >>]
       ELSE IF DropNa(SortRows(rows)) = << >>
       THEN [raised |-> TRUE, df |-> << >>]
       ELSE [raised |-> FALSE, df |-> DropNa(SortRows(rows))]

\* prepare_data_for_prophet: [raised, df]; raised stands for the exception
\* of line 68 (a KeyError of line 50 or 53 wrapped by the handler)
PrepareData(tb) ==
    LET cols == SelectColumns(tb)
    IN IF ~HasCol(cols, "ds") \/ ~HasCol(cols, "y")
       THEN [raised |-> TRUE, df |-> << >>]
       ELSE LET rows == [i \in 1..Len(tb.rows) |->
                            [ds |-> Cell(tb, ColNamed(cols, "ds"), i),
                             y |-> Cell(tb, ColNamed(cols, "y"), i)]]
            IN [raised |-> FALSE, df |-> DropNa(SortRows(rows))]

\* --------------------------------------------------------- Prophet library
\* the values the fitted model may predict, in tenths: below 0.4x, inside
\* and above 2.4x of the prices the inputs use
PredLevels == <<3, 30, 80>>

\* the (yhat_lower, yhat, yhat_upper) a model may predict for one row; every
\* one has yhat_lower <= yhat <= yhat_upper
TripleSeq ==
    LET l == PredLevels[1]
        m == PredLevels[2]
        h == PredLevels[3]
    IN << <<l, l, l>>, <<l, l, m>>, <<l, l, h>>, <<l, m, m>>, <<l, m, h>>,
          <<l, h, h>>, <<m, m, m>>, <<m, m, h>>, <<m, h, h>>, <<h, h, h>> >>

\* a fitted model: the triple it predicts for the first row; the rows after
\* it get the following triples, in a cycle
Models == 1..Len(TripleSeq)

\* Prophet.fit raises ValueError when fewer than 2 rows have a non-NaN y
\* ('Dataframe has less than 2 non-NaN rows.') or a y is infinite
\* ('Found infinity in column y.')
FitRejects(df) ==
    \/ Cardinality({i \in 1..Len(df) : ~IsNaN(df[i].y)}) < 2
    \/ \E i \in 1..Len(df) : IsInf(df[i].y)

\* messages of the other exceptions fit may end with: an optimizer failure,
\* and an exception raised without arguments, whose str() is ''
FitFailures == {"optimization failed", ""}

\* Prophet.history_dates: the distinct ds of the fitted frame, ascending
RECURSIVE SortedSeqOf(_)
SortedSeqOf(S) ==
    IF S = {} THEN << >>
    ELSE LET m == CHOOSE x \in S : \A y \in S : x <= y
         IN <<m>> \o SortedSeqOf(S \ {m})

HistoryDates(df) == SortedSeqOf({df[i].ds : i \in 1..Len(df)})

MakeFutureSkipFirst(df, n) ==
    LET h == HistoryDates(df)
    IN h \o [k \in 1..n |-> h[Len(h)] + (k + 1) * TicksPerDay]

\* line 178, Prophet.make_future_dataframe(periods=n): the history dates
\* followed by the n days after the last of them
MakeFuture(df, n) ==
    LET h == HistoryDates(df)
    IN h \o [k \in 1..n |-> h[Len(h)] + k * TicksPerDay]

\* a predicted value, in the space of the fitted y (log space after line 147)
PredValue(level, logspace) == IF logspace THEN LnOf(Fin(level)) ELSE Fin(level)

\* line 181, Prophet.predict(future): one row per date of future
Predict(future, mdl, logspace) ==
    [i \in 1..Len(future) |->
        LET t == TripleSeq[((mdl + i - 2) % Len(TripleSeq)) + 1]
        IN [ds |-> future[i],
            yhat_lower |-> PredValue(t[1], logspace),
            yhat |-> PredValue(t[2], logspace),
            yhat_upper |-> PredValue(t[3], logspace),
            actual |-> NaN]]

\* ------------------------------------------------------- prophet_forecast
IsStocks(asset) == Lower(asset) = "stocks"

\* line 147
LogTransform(df, asset) ==
    IF IsStocks(asset) THEN [i \in 1..Len(df) |-> [df[i] EXCEPT !.y = Log(df[i].y)]] ELSE df

\* lines 190-202 applied to one row; cur is current_price
ClampRow(r, cur) ==
    LET max_forecast == Mul(cur, 2, 1)
        min_forecast == Mul(cur, 1, 2)
    IN [r EXCEPT
          !.yhat = ClipLower(ClipUpper(r.yhat, max_forecast), min_forecast),
          !.yhat_upper = ClipUpper(r.yhat_upper, Mul(max_forecast, 12, 10)),
          !.yhat_lower = ClipLower(r.yhat_lower, Mul(min_forecast, 8, 10))]

\* lines 185-187
ExpRow(r) ==
    [r EXCEPT !.yhat = Exp(r.yhat),
              !.yhat_lower = Exp(r.yhat_lower),
              !.yhat_upper = Exp(r.yhat_upper)]

\* the clamp applied whatever the asset type
PostProcessAllAssets(fc, df, asset) ==
    LET last == df[Len(df)].y
        cur == IF IsStocks(asset) THEN Exp(last) ELSE last
    IN [i \in 1..Len(fc) |-> ClampRow(IF IsStocks(asset) THEN ExpRow(fc[i]) ELSE fc[i], cur)]

\* lines 183-202: back from log space and clamp, for stocks only
PostProcess(fc, df, asset) ==
    IF IsStocks(asset)
    THEN LET current_price == Exp(df[Len(df)].y)
         IN [i \in 1..Len(fc) |-> ClampRow(ExpRow(fc[i]), current_price)]
    ELSE fc

\* lines 206-209
ActualValues(df, asset) ==
    IF IsStocks(asset) THEN [i \in 1..Len(df) |-> Exp(df[i].y)]
    ELSE [i \in 1..Len(df) |-> df[i].y]

\* line 210: forecast['ds'].isin(prophet_df['ds'])
Mask(fc, df) == {i \in 1..Len(fc) : \E j \in 1..Len(df) : df[j].ds = fc[i].ds}

\* line 210: the assignment raises ValueError when the number of selected
\* rows differs from the number of values
AssignRaises(fc, df) == Cardinality(Mask(fc, df)) # Len(df)

\* line 210: the k-th selected row receives the k-th value
AssignActual(fc, df, asset) ==
    [i \in 1..Len(fc) |->
        IF i \in Mask(fc, df)
        THEN [fc[i] EXCEPT !.actual =
                 ActualValues(df, asset)[Cardinality({j \in Mask(fc, df) : j <= i})]]
        ELSE fc[i]]

NoForecast == [null |-> TRUE, rows |-> << >>]
NoError == [null |-> TRUE, msg |-> ""]
NotReturned ==
    [returned |-> FALSE, escaped |-> FALSE, forecast |-> NoForecast, error |-> NoError]

\* return None, <msg>
Failure(msg) ==
    [returned |-> TRUE, escaped |-> FALSE, forecast |-> NoForecast,
     error |-> [null |-> FALSE, msg |-> msg]]

\* line 212: return forecast, None
Success(fc) ==
    [returned |-> TRUE, escaped |-> FALSE,
     forecast |-> [null |-> FALSE, rows |-> fc], error |-> NoError]

\* a handler that lets the exception through to the caller
ExceptReraise(msg) ==
    [returned |-> FALSE, escaped |-> TRUE, forecast |-> NoForecast, error |-> NoError]

\* lines 214-216: except Exception as e: return None, str(e)
Except(msg) == Failure(msg)

\* ------------------------------------------------------------------ state
VARIABLES
    data,        \* the caller's table (none: the caller passed None)
    periods,     \* the horizon
    asset_type,  \* the asset type
    pc,          \* position in the call
    prepRaised,  \* prepare_data_for_prophet ended with its exception
    prophet_df,  \* the (ds, y) frame
    fitCalls,    \* number of calls of Prophet.fit
    mdl,         \* the fitted model
    raw,         \* what Prophet.predict returned
    forecast,    \* the forecast frame being post-processed
    outcome,     \* what the call handed to its caller
    economic_data, \* prophet_forecast's third parameter
    indicator,     \* prophet_forecast's fourth parameter
    app,         \* the locals of main() of app.py
    fred,        \* a call of EconomicIndicators.get_indicator_data
    analysis,    \* a call of EconomicIndicators.analyze_indicator
    confidence,  \* a call of display_metrics of forecasting.py
    technical,   \* a call of add_technical_indicators
    stock        \* a call of AssetDataFetcher.get_stock_data

vars == <<data, periods, asset_type, pc, prepRaised, prophet_df, fitCalls, mdl, raw,
          forecast, outcome, economic_data, indicator, app, fred, analysis, confidence,
          technical, stock>>

\* what a call of prophet_forecast leaves alone: its two unused parameters
\* and the state of the other functions
rest == <<economic_data, indicator, app, fred, analysis, confidence, technical, stock>>

\* the variables of a call of prophet_forecast
forecastVars == <<data, periods, asset_type, pc, prepRaised, prophet_df, fitCalls, mdl,
                  raw, forecast, outcome, economic_data, indicator>>

\* Python's None where a series is expected, and a supplied series
NoSeries == [null |-> TRUE, kind |-> "none"]

Series(kind) == [null |-> FALSE, kind |-> kind]

\* a function that is not running
Idle == [pc |-> "idle"]

\* every function but those named in S is not running
IdleExcept(S) ==
    /\ IF "app" \in S THEN TRUE ELSE app = Idle
    /\ IF "fred" \in S THEN TRUE ELSE fred = Idle
    /\ IF "analysis" \in S THEN TRUE ELSE analysis = Idle
    /\ IF "confidence" \in S THEN TRUE ELSE confidence = Idle
    /\ IF "technical" \in S THEN TRUE ELSE technical = Idle
    /\ IF "stock" \in S THEN TRUE ELSE stock = Idle

Days == 1..3

Vals == {NaN, PosInf, Fin(0), Fin(0 - Unit), Fin(Unit), Fin(3 * Unit)}

AssetTypes == {"stocks", "Stocks", "crypto", "real_estate"}

RowSeqs == UNION {[1..n -> [t : Days, v : Vals]] : n \in 0..MaxRows}

Table(idx, cols, rows) == [none |-> FALSE, index |-> idx, cols |-> cols, rows |-> rows]

NoneTable == [none |-> TRUE, index |-> "RangeIndex", cols |-> << >>, rows |-> << >>]

\* the shape the fetchers of data_fetchers.py produce (a DatetimeIndex named
\* 'Date' and a 'Close' column), and a malformed one
ForecastLayouts ==
    { [index |-> "DatetimeIndexNamed", cols |-> <<Col("Close", "number", "v")>>],
      [index |-> "RangeIndex",
       cols |-> <<Col("Date", "object", "t"), Col("Name", "object", "s")>>] }

\* further shapes a caller of prepare_data_for_prophet may pass
PrepLayouts ==
    ForecastLayouts \cup
    { [index |-> "DatetimeIndex", cols |-> <<Col("Close", "number", "v")>>],
      [index |-> "RangeIndex",
       cols |-> <<Col("Date", "object", "t"), Col("Close", "number", "v")>>],
      [index |-> "RangeIndex",
       cols |-> <<Col("Day", "object", "t"), Col("Close", "number", "v")>>],
      [index |-> "DatetimeIndexNamed", cols |-> <<Col("Price", "number", "v")>>],
      [index |-> "DatetimeIndex", cols |-> <<Col("Price", "number", "v")>>],
      [index |-> "RangeIndex",
       cols |-> <<Col("Date", "object", "t"), Col("Price", "number", "v")>>],
      [index |-> "RangeIndex",
       cols |-> <<Col("ds", "object", "t"), Col("y", "object", "v")>>],
      [index |-> "DatetimeIndexNamed", cols |-> <<Col("Name", "object", "s")>>],
      [index |-> "DatetimeIndex", cols |-> <<Col("Name", "object", "s")>>] }

TablesOf(layouts) == {Table(l.index, l.cols, r) : l \in layouts, r \in RowSeqs}

InitRest ==
    /\ pc = "start"
    /\ prepRaised = FALSE
    /\ prophet_df = << >>
    /\ fitCalls = 0
    /\ mdl = 0
    /\ raw = << >>
    /\ forecast = << >>
    /\ outcome = NotReturned
    /\ economic_data = NoSeries
    /\ indicator = NoSeries
    /\ IdleExcept({})

Init ==
    /\ data \in {NoneTable} \cup TablesOf(ForecastLayouts)
    /\ periods \in 0..MaxPeriods
    /\ asset_type \in AssetTypes
    /\ InitRest

\* lines 132-147: the input check, prepare_data_for_prophet, the check of
\* its result and the log transform
Prepare ==
    /\ pc = "start"
    /\ UNCHANGED rest
    /\ UNCHANGED <<data, periods, asset_type, fitCalls, mdl, raw, forecast>>
    /\ \/ /\ data.none \/ Len(data.rows) = 0
          /\ outcome' = Failure("No data provided for forecasting")
          /\ pc' = "done"
          /\ UNCHANGED <<prepRaised, prophet_df>>
       \/ /\ ~data.none /\ Len(data.rows) > 0
          /\ PrepareData(data).raised
          /\ prepRaised' = TRUE
          /\ outcome' = Except("Failed to prepare data for Prophet")
          /\ pc' = "done"
          /\ UNCHANGED prophet_df
       \/ /\ ~data.none /\ Len(data.rows) > 0
          /\ ~PrepareData(data).raised
          /\ PrepareData(data).df = << >>
          /\ prophet_df' = << >>
          /\ outcome' = Failure("No valid data for forecasting after preparation")
          /\ pc' = "done"
          /\ UNCHANGED prepRaised
       \/ /\ ~data.none /\ Len(data.rows) > 0
          /\ ~PrepareData(data).raised
          /\ PrepareData(data).df # << >>
          /\ prophet_df' = LogTransform(PrepareData(data).df, asset_type)
          /\ pc' = "fit"
          /\ UNCHANGED <<prepRaised, outcome>>

\* lines 149-175: the model is built and fitted
Fit ==
    /\ pc = "fit"
    /\ UNCHANGED rest
    /\ fitCalls' = fitCalls + 1
    /\ UNCHANGED <<data, periods, asset_type, prepRaised, prophet_df, raw, forecast>>
    /\ \/ /\ FitRejects(prophet_df)
          /\ outcome' = Except("Found infinity in column y or less than 2 non-NaN rows")
          /\ pc' = "done"
          /\ UNCHANGED mdl
       \/ /\ ~FitRejects(prophet_df)
          /\ \E msg \in FitFailures : outcome' = Except(msg)
          /\ pc' = "done"
          /\ UNCHANGED mdl
       \/ /\ ~FitRejects(prophet_df)
          /\ mdl' \in Models
          /\ pc' = "predict"
          /\ UNCHANGED outcome

\* lines 177-181: make_future_dataframe and predict
PredictStep ==
    /\ pc = "predict"
    /\ UNCHANGED rest
    /\ raw' = Predict(MakeFuture(prophet_df, periods), mdl, IsStocks(asset_type))
    /\ forecast' = raw'
    /\ pc' = "post"
    /\ UNCHANGED <<data, periods, asset_type, prepRaised, prophet_df, fitCalls, mdl, outcome>>

\* lines 183-202
PostStep ==
    /\ pc = "post"
    /\ UNCHANGED rest
    /\ forecast' = PostProcess(forecast, prophet_df, asset_type)
    /\ pc' = "actual"
    /\ UNCHANGED <<data, periods, asset_type, prepRaised, prophet_df, fitCalls, mdl, raw,
                   outcome>>

\* lines 204-212
ActualStep ==
    /\ pc = "actual"
    /\ UNCHANGED rest
    /\ pc' = "done"
    /\ UNCHANGED <<data, periods, asset_type, prepRaised, prophet_df, fitCalls, mdl, raw>>
    /\ \/ /\ AssignRaises(forecast, prophet_df)
          /\ outcome' = Except("Must have equal len keys and value when setting with an iterable")
          /\ UNCHANGED forecast
       \/ /\ ~AssignRaises(forecast, prophet_df)
          /\ forecast' = AssignActual(forecast, prophet_df, asset_type)
          /\ outcome' = Success(forecast')

Next == Prepare \/ Fit \/ PredictStep \/ PostStep \/ ActualStep

Spec == Init /\ [][Next]_vars

\* ------------------------------------------- prepare_data_for_prophet alone
InitPrep ==
    /\ data \in TablesOf(PrepLayouts)
    /\ periods = 0
    /\ asset_type = "stocks"
    /\ InitRest

\* a caller calls prepare_data_for_prophet(data)
PrepCall ==
    /\ pc = "start"
    /\ UNCHANGED rest
    /\ prepRaised' = PrepareData(data).raised
    /\ prophet_df' = PrepareData(data).df
    /\ pc' = "prepared"
    /\ UNCHANGED <<data, periods, asset_type, fitCalls, mdl, raw, forecast, outcome>>

NextPrep == PrepCall

SpecPrep == InitPrep /\ [][NextPrep]_vars

\* ----------------------------------------------------------- properties
Returned == pc = "done" /\ outcome.returned /\ ~outcome.forecast.null

Rows == outcome.forecast.rows

\* the normalized history, before the log transform
History == PrepareData(data).df

\* the last observed actual price
LastActual == History[Len(History)].y

\* C1: every row of a returned forecast has yhat_lower <= yhat <= yhat_upper
\* (the model's own prediction has it, see TripleSeq)
C1_BoundsOrdered ==
    Returned =>
        \A i \in 1..Len(Rows) :
            /\ Le(Rows[i].yhat_lower, Rows[i].yhat)
            /\ Le(Rows[i].yhat, Rows[i].yhat_upper)

\* C2: for stocks, with L the last observed actual price, every returned
\* point estimate is within [0.5 L, 2 L] and both bounds are within
\* [0.4 L, 2.4 L]
C2_StockClamp ==
    (Returned /\ IsStocks(asset_type)) =>
        \A i \in 1..Len(Rows) :
            /\ Le(Mul(LastActual, 1, 2), Rows[i].yhat)
            /\ Le(Rows[i].yhat, Mul(LastActual, 2, 1))
            /\ Le(Mul(LastActual, 4, 10), Rows[i].yhat_lower)
            /\ Le(Rows[i].yhat_lower, Mul(LastActual, 24, 10))
            /\ Le(Mul(LastActual, 4, 10), Rows[i].yhat_upper)
            /\ Le(Rows[i].yhat_upper, Mul(LastActual, 24, 10))

\* C3: for crypto the returned point estimate and bounds of every row are
\* the values the model predicted, unchanged
C3_CryptoUnclamped ==
    (Returned /\ Lower(asset_type) = "crypto") =>
        /\ Len(Rows) = Len(raw)
        /\ \A i \in 1..Len(Rows) :
              /\ Rows[i].ds = raw[i].ds
              /\ Rows[i].yhat = raw[i].yhat
              /\ Rows[i].yhat_lower = raw[i].yhat_lower
              /\ Rows[i].yhat_upper = raw[i].yhat_upper

\* a crypto forecast is returned with a point estimate above 2x the last
\* actual price
C3_Witness ==
    /\ Returned /\ Lower(asset_type) = "crypto"
    /\ Lt(Fin(0), LastActual)
    /\ \E i \in 1..Len(Rows) : Lt(Mul(LastActual, 2, 1), Rows[i].yhat)

\* C4: no exception reaches the caller, and a finished call has returned a
\* pair with exactly one side null
C4_NeverRaises ==
    /\ ~outcome.escaped
    /\ pc = "done" =>
          /\ outcome.returned
          /\ outcome.forecast.null # outcome.error.null
    /\ pc # "done" => ~outcome.returned

\* a call on which normalization raised has returned (null, message)
C4_Witness ==
    /\ pc = "done" /\ prepRaised
    /\ outcome.returned /\ outcome.forecast.null /\ ~outcome.error.null

\* the timestamp prepare_data_for_prophet gives input row i
InputStamp(i) == Cell(data, ColNamed(SelectColumns(data), "ds"), i)

\* C5: the returned series is strictly ascending by ds (no timestamp twice),
\* and of several input rows with one timestamp the last is the one kept
C5_SortedUnique ==
    (pc = "prepared" /\ ~prepRaised) =>
        /\ \A i, j \in 1..Len(prophet_df) : i < j => prophet_df[i].ds < prophet_df[j].ds
        /\ \A k \in 1..Len(prophet_df) :
              \E i \in 1..Len(data.rows) :
                 /\ InputStamp(i) = prophet_df[k].ds
                 /\ data.rows[i].v = prophet_df[k].y
                 /\ \A j \in 1..Len(data.rows) :
                       (j > i /\ ~IsNaN(data.rows[j].v)) => InputStamp(j) # InputStamp(i)

\* C6: every y of the returned series is finite
C6_AllFinite ==
    (pc = "prepared" /\ ~prepRaised) =>
        \A i \in 1..Len(prophet_df) : IsFinite(prophet_df[i].y)

\* the input has neither a Close column nor a numeric column
NoValueColumn == ~HasCol(data.cols, "Close") /\ NumericCols(data.cols) = {}

\* no row of the input survives the cleaning
AllMissing == \A i \in 1..Len(data.rows) : IsNaN(data.rows[i].v)

\* C7 as stated: prepare_data_for_prophet fails when zero rows remain after
\* cleaning, and when there is neither a Close nor a numeric column
C7_FailsOnEmptyOrNoColumn ==
    (pc = "prepared" /\ (AllMissing \/ NoValueColumn)) => prepRaised

\* C7 amended: it fails when there is neither a Close column, a numeric
\* column nor a column named y; when a Close or numeric column exists and
\* zero rows remain after cleaning it returns the empty series
C7_FailsOnNoColumnOnly ==
    pc = "prepared" =>
        /\ (NoValueColumn /\ ~HasCol(data.cols, "y")) => prepRaised
        /\ (~NoValueColumn /\ AllMissing) => (~prepRaised /\ prophet_df = << >>)

\* every row of a table with a Close column was dropped, and the call
\* returned the empty series
C7_Witness ==
    /\ pc = "prepared" /\ ~prepRaised /\ prophet_df = << >>
    /\ HasCol(data.cols, "Close") /\ Len(data.rows) > 0 /\ AllMissing

\* C8: when the series to be fitted holds a non-finite value, the model fit
\* is never called and the call returns (null, message)
C8_FailFast ==
    (\E i \in 1..Len(prophet_df) : ~IsFinite(prophet_df[i].y)) =>
        /\ fitCalls = 0
        /\ pc = "done" => (outcome.returned /\ outcome.forecast.null)

\* C9: in a returned forecast the actual of a row whose timestamp is in the
\* normalized history is the input value observed at that timestamp, and
\* null for every other row
C9_ActualIsInput ==
    Returned =>
        \A i \in 1..Len(Rows) :
            IF \E j \in 1..Len(History) : History[j].ds = Rows[i].ds
            THEN \A j \in 1..Len(History) :
                    History[j].ds = Rows[i].ds => Rows[i].actual = History[j].y
            ELSE IsNaN(Rows[i].actual)

\* C10 as stated: one row for each calendar day from the first historical
\* date through the last historical date + periods
C10_EveryCalendarDay ==
    Returned =>
        LET first == History[1].ds
            last == History[Len(History)].ds
            n == (last - first) \div TicksPerDay + periods + 1
        IN /\ Len(Rows) = n
           /\ \A i \in 1..n : Rows[i].ds = first + (i - 1) * TicksPerDay

\* C10 amended: one row for each distinct historical timestamp and one for
\* each of the periods calendar days after the last of them, ascending, no
\* timestamp twice; a day the history skips gets no row
C10_HistoryThenFuture ==
    Returned =>
        LET H == {History[j].ds : j \in 1..Len(History)}
            last == History[Len(History)].ds
        IN /\ Len(Rows) = Cardinality(H) + periods
           /\ \A i, j \in 1..Len(Rows) : i < j => Rows[i].ds < Rows[j].ds
           /\ {Rows[i].ds : i \in 1..Len(Rows)} =
                 H \cup {last + k * TicksPerDay : k \in 1..periods}

\* a forecast over a history that skips a day, with a horizon of a day or more
C10_Witness ==
    /\ Returned /\ periods > 0
    /\ \E j \in 1..(Len(History) - 1) : History[j + 1].ds - History[j].ds > TicksPerDay
    /\ Len(Rows) = Len(History) + periods

\* ------------------------------------------------------- main() of app.py
\* app.py line 44: the least and the greatest horizon validate_inputs accepts
MinPeriod == 7

MaxPeriod == 90

\* Config.ASSET_TYPES of config.py, which app.py imports at line 6
ASSET_TYPES == {"Stocks", "Crypto"}

\* validate_inputs without the test of the symbol
ValidateInputsAnySymbol(symbol, p, a) ==
    /\ ~(p < MinPeriod \/ p > MaxPeriod)
    /\ a \in ASSET_TYPES

\* app.py lines 38-52
validate_inputs(symbol, p, a) ==
    /\ symbol # ""
    /\ ~(p < MinPeriod \/ p > MaxPeriod)
    /\ a \in ASSET_TYPES

\* app.py line 98: what the text input can hold
Symbols == {"", "AAPL"}

\* app.py line 100: values of the slider st.sidebar.slider(..., 7, 90, 30)
PeriodChoices == {MinPeriod, MinPeriod + 1}

\* the prices a fetcher delivers: positive, or missing
PriceVals == {NaN, Fin(Unit), Fin(3 * Unit)}

\* the days a fetched history covers
PriceDays == 1..2

PriceRowSeqs == UNION {[1..n -> [t : PriceDays, v : PriceVals]] : n \in 0..MaxRows}

\* app.py lines 109-110: what fetcher.get_historical_data() can hand back
HistoricalTables ==
    {NoneTable} \cup
    {Table("DatetimeIndexNamed", <<Col("Close", "number", "v")>>, r) : r \in PriceRowSeqs}

\* forecasting.py lines 149-172: the regressors the model is given before
\* the fit; the body of prophet_forecast reads neither parameter, the only
\* additions to the model are the two seasonalities
ModelRegressors(econ, ind) == {}

\* app.py line 130: the truth value of error
Truthy(error) == ~error.null /\ error.msg # ""

\* app.py lines 178-181: forecast_df['yhat'][-len(historical_data):], the
\* last len(historical_data) rows of the forecast
LastRows(fc, n) ==
    IF n = 0 THEN fc
    ELSE [i \in 1..(IF n < Len(fc) THEN n ELSE Len(fc)) |->
             fc[Len(fc) - (IF n < Len(fc) THEN n ELSE Len(fc)) + i]]

\* Forecasting.calculate_accuracy(actual, predicted): the i-th actual is
\* compared with the i-th prediction
calculate_accuracy(actual, predicted) ==
    [i \in 1..(IF Len(actual) < Len(predicted) THEN Len(actual) ELSE Len(predicted)) |->
        [actual |-> actual[i], predicted |-> predicted[i]]]

\* historical_data['Close'] with its index
CloseSeries(tb) == [i \in 1..Len(tb.rows) |-> [ds |-> tb.rows[i].t * TicksPerDay,
                                               value |-> tb.rows[i].v]]

NoAccuracy == [null |-> TRUE, pairs |-> << >>]

\* no call of prophet_forecast is in progress
ForecastIdle ==
    /\ data = NoneTable
    /\ periods = 0
    /\ asset_type = "stocks"
    /\ pc = "idle"
    /\ prepRaised = FALSE
    /\ prophet_df = << >>
    /\ fitCalls = 0
    /\ mdl = 0
    /\ raw = << >>
    /\ forecast = << >>
    /\ outcome = NotReturned
    /\ economic_data = NoSeries
    /\ indicator = NoSeries

\* app.py lines 98-105: the widgets
InitMain ==
    /\ app \in [pc : {"validate"},
                symbol : Symbols,
                asset_type : ASSET_TYPES,
                forecast_period : PeriodChoices,
                include_sentiment : BOOLEAN,
                include_economic : BOOLEAN,
                historical_data : {NoneTable},
                sentiment_data : {NoSeries},
                economic_data : {NoSeries},
                calls : {0},
                downstream : {<< >>},
                accuracy : {NoAccuracy}]
    /\ ForecastIdle
    /\ IdleExcept({"app"})

\* app.py line 107
MainValidate ==
    /\ app.pc = "validate"
    /\ UNCHANGED <<forecastVars, fred, analysis, confidence, technical, stock>>
    /\ \/ /\ validate_inputs(app.symbol, app.forecast_period, app.asset_type)
          /\ app' = [app EXCEPT !.pc = "fetch"]
       \/ /\ ~validate_inputs(app.symbol, app.forecast_period, app.asset_type)
          /\ app' = [app EXCEPT !.pc = "footer"]

\* app.py lines 109-119: the history, the sentiment and the economic series
\* are fetched; historical_data.tail raises on None, which line 187 catches
MainFetch ==
    /\ app.pc = "fetch"
    /\ UNCHANGED <<forecastVars, fred, analysis, confidence, technical, stock>>
    /\ \E h \in HistoricalTables :
       LET s == IF app.include_sentiment THEN Series("sentiment") ELSE NoSeries
           e == IF app.include_economic THEN Series("economic") ELSE NoSeries
       IN
          \/ /\ h.none
             /\ app' = [app EXCEPT !.pc = "handled", !.historical_data = h,
                                   !.sentiment_data = s, !.economic_data = e]
          \/ /\ ~h.none
             /\ app' = [app EXCEPT !.pc = "call", !.historical_data = h,
                                   !.sentiment_data = s, !.economic_data = e]

\* app.py lines 123-128: prophet_forecast(historical_data, forecast_period,
\* sentiment_data, economic_data); asset_type keeps its default 'stocks'
MainForecastCall ==
    /\ app.pc = "call"
    /\ app' = [app EXCEPT !.pc = "forecasting", !.calls = @ + 1]
    /\ data' = app.historical_data
    /\ periods' = app.forecast_period
    /\ economic_data' = app.sentiment_data
    /\ indicator' = app.economic_data
    /\ asset_type' = "stocks"
    /\ pc' = "start"
    /\ UNCHANGED <<prepRaised, prophet_df, fitCalls, mdl, raw, forecast, outcome>>
    /\ UNCHANGED <<fred, analysis, confidence, technical, stock>>

\* app.py lines 135-157: the steps that are handed forecast_df, in order;
\* calculate_accuracy (line 178) follows them
DownstreamSteps == <<"create_forecast_plot", "display_metrics", "display_components">>

\* app.py lines 130-185: the error check, the displays and the accuracy.
\* With a falsy error and forecast_df None, line 135 calls
\* create_forecast_plot with None; one of the steps raises, at the latest
\* forecast_df['yhat'] of line 180, and line 187 catches it
MainAfterForecast ==
    /\ app.pc = "forecasting"
    /\ pc = "done"
    /\ UNCHANGED <<forecastVars, fred, analysis, confidence, technical, stock>>
    /\ \/ /\ Truthy(outcome.error)
          /\ app' = [app EXCEPT !.pc = "returned"]
       \/ /\ ~Truthy(outcome.error)
          /\ outcome.forecast.null
          /\ \E k \in 1..Len(DownstreamSteps) :
                app' = [app EXCEPT !.pc = "handled",
                                   !.downstream = SubSeq(DownstreamSteps, 1, k)]
       \/ /\ ~Truthy(outcome.error)
          /\ ~outcome.forecast.null
          /\ app' = [app EXCEPT
                 !.pc = "shown",
                 !.downstream = Append(DownstreamSteps, "calculate_accuracy"),
                 !.accuracy =
                     [null |-> FALSE,
                      pairs |-> calculate_accuracy(
                                    CloseSeries(app.historical_data),
                                    LastRows(outcome.forecast.rows,
                                             Len(app.historical_data.rows)))]]

NextMain ==
    \/ MainValidate
    \/ MainFetch
    \/ MainForecastCall
    \/ Prepare
    \/ Fit
    \/ PredictStep
    \/ PostStep
    \/ ActualStep
    \/ MainAfterForecast

SpecMain == InitMain /\ [][NextMain]_vars

\* ----------------------------------------------------- properties of main
\* the series handed to the call of prophet_forecast in progress
Supplied == {s \in {economic_data, indicator} : ~s.null}

\* C11: a forecast call uses zero or one external regressor: a supplied
\* economic or sentiment series is among the model's regressors when the fit
\* runs, and the two kinds are never both supplied in one call
C11_OneRegressor ==
    (app.pc = "forecasting" /\ fitCalls > 0) =>
        /\ Cardinality(Supplied) <= 1
        /\ ModelRegressors(economic_data, indicator) = Supplied

\* --------------------------------- EconomicIndicators.get_indicator_data
\* the most observations of a fetched indicator series
MaxObs == 3

\* data_fetchers.py lines 19-50: indicator_details, the frequency of each
\* FRED indicator; 'IEF' is handled apart (line 56) and never looked up
Frequency(ind) ==
    CASE ind = "GDP" -> "Quarterly"
      [] ind = "UNRATE" -> "Monthly"
      [] ind = "CPIAUCSL" -> "Monthly"
      [] ind = "DFF" -> "Daily"
      [] OTHER -> "KeyError"

\* the indicator names a caller may pass
Indicators == {"GDP", "UNRATE", "DFF", "IEF", "SP500"}

\* the observations of a series: a value, or missing
ObsVals == {NaN, Fin(Unit), Fin(3 * Unit)}

ObsSeqs == UNION {[1..n -> ObsVals] : n \in 0..MaxObs}

\* Series.ffill: a missing value takes the last value before it, if any
RECURSIVE Ffill(_)
Ffill(s) ==
    IF Len(s) <= 1 THEN s
    ELSE LET head == Ffill(SubSeq(s, 1, Len(s) - 1))
         IN Append(head, IF IsNaN(s[Len(s)]) THEN head[Len(head)] ELSE s[Len(s)])

\* Series.bfill: a missing value takes the next value after it, if any
RECURSIVE Bfill(_)
Bfill(s) ==
    IF Len(s) <= 1 THEN s
    ELSE LET tail == Bfill(SubSeq(s, 2, Len(s)))
         IN <<IF IsNaN(s[1]) THEN tail[1] ELSE s[1]>> \o tail

NoFrame == [null |-> TRUE, value |-> << >>]

Frame(values) == [null |-> FALSE, value |-> values]

\* data_fetchers.py lines 56-80: the value column of the frame
FillValues(ind, values) ==
    IF ind # "IEF" /\ Frequency(ind) # "Daily" THEN Ffill(values) ELSE values

\* a caller calls get_indicator_data(indicator); the download delivers a
\* series or raises
InitFred ==
    /\ fred \in [pc : {"start"},
                 indicator : Indicators,
                 raises : BOOLEAN,
                 fetched : ObsSeqs,
                 df : {NoFrame}]
    /\ ForecastIdle
    /\ IdleExcept({"fred"})

\* data_fetchers.py lines 53-93
GetIndicatorData ==
    /\ fred.pc = "start"
    /\ UNCHANGED <<forecastVars, app, analysis, confidence, technical, stock>>
    /\ \/ /\ fred.indicator # "IEF"
          /\ Frequency(fred.indicator) = "KeyError"
          /\ fred' = [fred EXCEPT !.pc = "done", !.df = NoFrame]
       \/ /\ fred.indicator = "IEF" \/ Frequency(fred.indicator) # "KeyError"
          /\ fred.raises
          /\ fred' = [fred EXCEPT !.pc = "done", !.df = NoFrame]
       \/ /\ fred.indicator = "IEF" \/ Frequency(fred.indicator) # "KeyError"
          /\ ~fred.raises
          /\ fred' = [fred EXCEPT !.pc = "done",
                                  !.df = Frame(FillValues(fred.indicator, fred.fetched))]

NextFred == GetIndicatorData

SpecFred == InitFred /\ [][NextFred]_vars

\* C12: the series prepared for use as a regressor has a value at every one
\* of its timestamps: gaps anywhere (leading, interior, trailing) are filled
\* by a forward fill followed by a backward fill
C12_GapsFilled ==
    (fred.pc = "done" /\ ~fred.df.null) =>
        /\ fred.df.value = Bfill(Ffill(fred.fetched))
        /\ (\E i \in 1..Len(fred.fetched) : ~IsNaN(fred.fetched[i])) =>
               \A i \in 1..Len(fred.df.value) : ~IsNaN(fred.df.value[i])

\* ------------------------------------------- properties of prophet_forecast
\* forecasting.py lines 150-165: the arguments the Prophet model is built
\* with (changepoint_range and interval_width keep Prophet's defaults, 0.8
\* and 0.80, in the else branch)
ModelParams(asset) ==
    IF IsStocks(asset)
    THEN [changepoint_prior_scale |-> "0.01", changepoint_range |-> "0.8",
          interval_width |-> "0.95"]
    ELSE [changepoint_prior_scale |-> "0.05", changepoint_range |-> "0.8",
          interval_width |-> "0.80"]

\* what the call returns for a Stock with this history, horizon and model
StockForecast ==
    LET df == LogTransform(History, "stocks")
    IN AssignActual(PostProcess(Predict(MakeFuture(df, periods), mdl, TRUE), df, "stocks"),
                    df, "stocks")

\* C13: an asset class that is neither Stock nor Crypto is treated exactly
\* as Stock: Stock model parameters, fit in log space, Stock clamp
C13_UnknownAsStock ==
    (Lower(asset_type) \notin {"stocks", "crypto"} /\ fitCalls > 0) =>
        /\ ModelParams(asset_type) = ModelParams("stocks")
        /\ prophet_df = LogTransform(History, "stocks")
        /\ Returned => Rows = StockForecast

\* ----------------------------------------------------- properties of main
\* the last timestamp of the history main fetched
LastHistorical ==
    LET h == CloseSeries(app.historical_data)
    IN CHOOSE d \in {h[i].ds : i \in 1..Len(h)} : \A i \in 1..Len(h) : h[i].ds <= d

\* C14: the accuracy metrics are computed over the overlap window only:
\* each actual price is compared with the point estimate of the row having
\* the same timestamp, and no future row contributes
C14_OverlapOnly ==
    (app.pc = "shown" /\ ~app.accuracy.null) =>
        \A i \in 1..Len(app.accuracy.pairs) :
            /\ app.accuracy.pairs[i].predicted.ds = app.accuracy.pairs[i].actual.ds
            /\ app.accuracy.pairs[i].predicted.ds <= LastHistorical

\* ------------------------ display_metrics / display_confidence_analysis
\* exact fractions, for the percentages the displays compute
Rat(n, d) == [num |-> n, den |-> d]

RatAdd(a, b) == Rat(a.num * b.den + b.num * a.den, a.den * b.den)

RatSub(a, b) == Rat(a.num * b.den - b.num * a.den, a.den * b.den)

RatLe(a, b) == a.num * b.den <= b.num * a.den

RatMin(a, b) == IF RatLe(a, b) THEN a ELSE b

\* the rows of a forecast handed to the displays: <<yhat_lower, yhat,
\* yhat_upper>>, the triples Prophet.predict can deliver
DisplayRows == {TripleSeq[i] : i \in 1..Len(TripleSeq)}

DisplayForecasts == UNION {[1..n -> DisplayRows] : n \in 0..MaxRows}

\* forecasting.py lines 342 and 559: (yhat_upper - yhat_lower) / yhat * 100
ConfidenceWidth(r) == Rat((r[3] - r[1]) * 100, r[2])

RECURSIVE SumWidth(_)
SumWidth(fc) ==
    IF Len(fc) = 0 THEN Rat(0, 1)
    ELSE RatAdd(SumWidth(SubSeq(fc, 1, Len(fc) - 1)), ConfidenceWidth(fc[Len(fc)]))

\* confidence_width.mean()
MeanWidth(fc) == Rat(SumWidth(fc).num, SumWidth(fc).den * Len(fc))

\* forecasting.py line 560, the second definition of
\* display_confidence_analysis: avg_confidence = 100 - confidence_width.mean()
AvgConfidenceSecond(fc) == RatSub(Rat(100, 1), MeanWidth(fc))

\* the module defines display_confidence_analysis at line 332 (which caps
\* the mean width at 90, line 349) and again at line 553; the name is looked
\* up when display_metrics runs, after the module has loaded, so the
\* definition of line 553 is the one called
display_confidence_analysis(fc, asset) == AvgConfidenceSecond(fc)

NoMetric == [shown |-> FALSE, value |-> Rat(0, 1)]

Metric(v) == [shown |-> TRUE, value |-> v]

RatMax(a, b) == IF RatLe(a, b) THEN b ELSE a

\* forecasting.py lines 253-276, display_common_metrics(data, forecast,
\* asset_type) for a last Close of cur: the "Forecasted Price" metric and
\* its change; on an empty forecast iloc[-1] raises and lines 273-276 fall
\* back to the current price
display_common_metrics(cur, fc, asset) ==
    IF Len(fc) = 0 THEN [price |-> Rat(cur, 1), change |-> Rat(0, 1)]
    ELSE LET last == Rat(fc[Len(fc)][2], 1)
             next == IF Lower(asset) = "stocks"
                     THEN RatMax(Rat(cur, 2), RatMin(last, Rat(cur * 2, 1)))
                     ELSE last
             change == Rat((next.num - cur * next.den) * 100, cur * next.den)
         IN [price |-> next,
             change |-> IF Lower(asset) = "stocks"
                        THEN RatMax(Rat(0 - 50, 1), RatMin(change, Rat(100, 1)))
                        ELSE change]

\* forecasting.py lines 603-613, the definition of display_metrics in
\* effect: display_common_metrics(data, forecast) is called without the
\* asset type, whose default is 'stocks' (line 218); display_crypto_metrics
\* for crypto; display_stock_metrics is called by the definition of line
\* 437 only, which line 603 replaces
CommonAssetType(asset) == "stocks"

HelpersCalled(asset) ==
    <<"display_common_metrics">> \o
    (IF Lower(asset) = "crypto" THEN <<"display_crypto_metrics">> ELSE << >>) \o
    <<"display_confidence_analysis">>

\* the last Close of the history handed to display_metrics
CurrentPrices == {Unit, 3 * Unit}

\* a caller calls display_metrics(data, forecast, asset_type, symbol)
InitConfidence ==
    /\ confidence \in [pc : {"start"},
                       current_price : CurrentPrices,
                       forecast : DisplayForecasts,
                       asset_type : {"stocks", "crypto"},
                       called : {<< >>},
                       forecasted_price : {NoMetric},
                       forecast_change : {NoMetric},
                       avg_confidence : {NoMetric}]
    /\ ForecastIdle
    /\ IdleExcept({"confidence"})

\* forecasting.py lines 603-613 (the definition of display_metrics in
\* effect) and 553-572: the "Average Confidence" metric; on an empty
\* forecast iloc[-1] raises, which line 570 catches, and no metric is shown
DisplayMetrics ==
    /\ confidence.pc = "start"
    /\ UNCHANGED <<forecastVars, app, fred, analysis, technical, stock>>
    /\ LET common == display_common_metrics(confidence.current_price, confidence.forecast,
                                            CommonAssetType(confidence.asset_type))
       IN \/ /\ Len(confidence.forecast) = 0
             /\ confidence' = [confidence EXCEPT
                    !.pc = "done",
                    !.called = HelpersCalled(confidence.asset_type),
                    !.forecasted_price = Metric(common.price),
                    !.forecast_change = Metric(common.change)]
          \/ /\ Len(confidence.forecast) > 0
             /\ confidence' = [confidence EXCEPT
                    !.pc = "done",
                    !.called = HelpersCalled(confidence.asset_type),
                    !.forecasted_price = Metric(common.price),
                    !.forecast_change = Metric(common.change),
                    !.avg_confidence =
                        Metric(display_confidence_analysis(confidence.forecast,
                                                           confidence.asset_type))]

NextConfidence == DisplayMetrics

SpecConfidence == InitConfidence /\ [][NextConfidence]_vars

\* C15: the average confidence display_metrics shows is 100 minus the mean
\* interval width with the mean capped at 90: it is at least 10 and never
\* negative
C15_ConfidenceFloor ==
    (confidence.pc = "done" /\ confidence.avg_confidence.shown) =>
        LET v == confidence.avg_confidence.value
            capped == RatSub(Rat(100, 1), RatMin(MeanWidth(confidence.forecast), Rat(90, 1)))
        IN /\ RatLe(v, capped) /\ RatLe(capped, v)
           /\ RatLe(Rat(10, 1), v)
           /\ RatLe(Rat(0, 1), v)

\* ---------------------------------- EconomicIndicators.analyze_indicator
\* data_fetchers.py line 116 (and the literal 30 of line 108)
trend_period == 30

\* the value column of the frame handed in: n observations that rise, fall
\* or stay level, with at most one missing observation (at position gap)
ValueColumn(n, shape, gap) ==
    [i \in 1..n |->
        IF i = gap THEN NaN
        ELSE CASE shape = "rising" -> Fin(Unit + i)
               [] shape = "falling" -> Fin(10 * Unit - i)
               [] OTHER -> Fin(Unit)]

IndicatorFrames ==
    {NoFrame} \cup
    UNION {{Frame(ValueColumn(n, shape, gap)) :
               shape \in {"rising", "falling", "level"}, gap \in {0, 1, n}} :
           n \in 0..(trend_period + 1)}

\* line 119, the sign of the slope np.polyfit(range(30), y, 1) returns: the
\* sign of sum((i - mean(i)) * y[i])
RECURSIVE SlopeSum(_, _)
SlopeSum(w, i) ==
    IF i = 0 THEN 0 ELSE SlopeSum(w, i - 1) + (2 * i - (Len(w) + 1)) * w[i].v

LastN(s, n) == SubSeq(s, Len(s) - n + 1, Len(s))

\* line 120
TrendLabel(w) ==
    IF \E i \in 1..Len(w) : ~IsFinite(w[i]) THEN "Stable"
    ELSE IF SlopeSum(w, Len(w)) > 0 THEN "Upward"
    ELSE IF SlopeSum(w, Len(w)) < 0 THEN "Downward"
    ELSE "Stable"

\* change_1m that needs more than 30 observations
Change1mOver30(v) ==
    IF Len(v) > 30
    THEN [null |-> FALSE, value |-> Rat(0, 0)]
    ELSE [null |-> TRUE, value |-> Rat(0, 0)]

\* line 108: change_1m, None below 30 observations
Change1m(v) ==
    IF Len(v) >= 30
    THEN [null |-> FALSE,
          value |-> IF IsFinite(v[Len(v)]) /\ IsFinite(v[Len(v) - 29]) /\ v[Len(v) - 29].v # 0
                    THEN Rat((v[Len(v)].v - v[Len(v) - 29].v) * 100, v[Len(v) - 29].v)
                    ELSE Rat(0, 0)]
    ELSE [null |-> TRUE, value |-> Rat(0, 0)]

\* return {}
NoStats == [empty |-> TRUE, change_1m |-> [null |-> TRUE, value |-> Rat(0, 0)],
            trend |-> "absent"]

\* a caller calls analyze_indicator(df, indicator)
InitAnalysis ==
    /\ analysis \in [pc : {"start"}, df : IndicatorFrames, stats : {NoStats}]
    /\ ForecastIdle
    /\ IdleExcept({"analysis"})

\* data_fetchers.py lines 99-126. iloc[-2] raises IndexError on a frame of
\* one row; np.polyfit on a window holding a missing value either raises
\* LinAlgError or returns a NaN slope, depending on the LAPACK build; every
\* exception is caught at line 124, and {} is returned
AnalyzeIndicator ==
    /\ analysis.pc = "start"
    /\ UNCHANGED <<forecastVars, app, fred, confidence, technical, stock>>
    /\ LET v == analysis.df.value
       IN \/ /\ analysis.df.null \/ Len(v) = 0
             /\ analysis' = [analysis EXCEPT !.pc = "done", !.stats = NoStats]
          \/ /\ ~analysis.df.null /\ Len(v) = 1
             /\ analysis' = [analysis EXCEPT !.pc = "done", !.stats = NoStats]
          \/ /\ ~analysis.df.null /\ Len(v) > 1 /\ Len(v) < trend_period
             /\ analysis' = [analysis EXCEPT
                    !.pc = "done",
                    !.stats = [empty |-> FALSE, change_1m |-> Change1m(v),
                               trend |-> "absent"]]
          \/ /\ ~analysis.df.null /\ Len(v) >= trend_period
             /\ analysis' = [analysis EXCEPT
                    !.pc = "done",
                    !.stats = [empty |-> FALSE, change_1m |-> Change1m(v),
                               trend |-> TrendLabel(LastN(v, trend_period))]]
          \/ /\ ~analysis.df.null /\ Len(v) >= trend_period
             /\ \E i \in 1..trend_period : ~IsFinite(LastN(v, trend_period)[i])
             /\ analysis' = [analysis EXCEPT !.pc = "done", !.stats = NoStats]

NextAnalysis == AnalyzeIndicator

SpecAnalysis == InitAnalysis /\ [][NextAnalysis]_vars

C17_ValidatedBeforeForecast ==
    (app.calls > 0 \/ pc # "idle") =>
        /\ validate_inputs(app.symbol, app.forecast_period, app.asset_type)
        /\ app.symbol # ""
        /\ periods >= MinPeriod /\ periods <= MaxPeriod
        /\ app.asset_type \in ASSET_TYPES

\* a call of prophet_forecast made by main has returned a forecast
C17_Witness ==
    /\ app.pc = "forecasting"
    /\ app.calls = 1
    /\ Returned

\* ------------------------------------ the caller's table across a call
\* the tables a caller holds: an index of dates and some of these columns
CallerLayouts ==
    { <<Col("Close", "number", "v")>>,
      <<Col("Close", "number", "v"), Col("Volume", "number", "v")>>,
      <<Col("Volume", "number", "v")>>,
      <<Col("Name", "object", "s")>> }

CallerTables ==
    {Table("DatetimeIndexNamed", c, r) : c \in CallerLayouts, r \in PriceRowSeqs}

\* df[name] = <computed series>, for each name in turn: a column is added
\* to the table object df refers to
RECURSIVE Assign(_, _)
Assign(tb, names) ==
    IF names = << >> THEN tb
    ELSE Assign([tb EXCEPT !.cols = SetCol(tb.cols, Head(names), "number", "computed")],
                Tail(names))

\* forecasting.py lines 70-92, on the table object the caller passed: the
\* first two columns need Volume, the others Close; a KeyError ends the
\* function (line 90) with what was assigned so far
add_crypto_specific_indicators(tb) ==
    IF ~HasCol(tb.cols, "Volume") THEN tb
    ELSE IF ~HasCol(tb.cols, "Close") THEN Assign(tb, <<"volume_ma", "volume_ratio">>)
    ELSE Assign(tb, <<"volume_ma", "volume_ratio", "hourly_volatility", "volatility_ratio",
                      "market_dominance", "network_transactions", "active_addresses">>)

\* forecasting.py lines 94-127, on the table object the caller passed
add_technical_indicators(tb, asset) ==
    IF ~HasCol(tb.cols, "Close") THEN tb
    ELSE LET base == Assign(tb, <<"MA5", "MA20", "MA50", "RSI", "MACD", "Signal_Line">>)
         IN IF Lower(asset) = "crypto" THEN add_crypto_specific_indicators(base) ELSE base

\* a caller passes its table to one of the four stages
InitTechnical ==
    /\ technical \in [pc : {"start"},
                      stage : {"prepare_data_for_prophet", "prophet_forecast",
                               "add_technical_indicators",
                               "add_crypto_specific_indicators"},
                      asset_type : {"stocks", "crypto"},
                      before : CallerTables,
                      df : CallerTables]
    /\ technical.df = technical.before
    /\ ForecastIdle
    /\ IdleExcept({"technical"})

\* the stage runs and returns; technical.df is the caller's table object.
\* prepare_data_for_prophet works on data.copy() (line 24), prophet_forecast
\* on the frame prepare_data_for_prophet returns (line 136); the two
\* indicator functions assign into the parameter
StageCall ==
    /\ technical.pc = "start"
    /\ UNCHANGED <<forecastVars, app, fred, analysis, confidence, stock>>
    /\ \/ /\ technical.stage \in {"prepare_data_for_prophet", "prophet_forecast"}
          /\ technical' = [technical EXCEPT !.pc = "done"]
       \/ /\ technical.stage = "add_technical_indicators"
          /\ technical' = [technical EXCEPT
                 !.pc = "done",
                 !.df = add_technical_indicators(technical.df, technical.asset_type)]
       \/ /\ technical.stage = "add_crypto_specific_indicators"
          /\ technical' = [technical EXCEPT
                 !.pc = "done",
                 !.df = add_crypto_specific_indicators(technical.df)]

NextTechnical == StageCall

SpecTechnical == InitTechnical /\ [][NextTechnical]_vars

\* C18: no stage mutates the table it was given: after the stage returns,
\* the caller's table has the same columns and the same rows as before
C18_InputUntouched ==
    technical.pc = "done" =>
        /\ technical.df.cols = technical.before.cols
        /\ technical.df.rows = technical.before.rows

\* ------------------------------------ properties of prepare_data_for_prophet
\* the source of the timestamps as C19 describes it: the date-typed index;
\* failing that the first column with a date name; failing that the first
\* column of the table
ClaimedDateSource(tb) ==
    IF tb.index \in {"DatetimeIndex", "DatetimeIndexNamed"} THEN "t"
    ELSE IF DateCols(tb.cols) # {}
    THEN tb.cols[CHOOSE i \in DateCols(tb.cols) : \A j \in DateCols(tb.cols) : i <= j].holds
    ELSE tb.cols[1].holds

\* C19: the timestamp source is picked the same way whichever value column
\* is used: a date-typed index is materialized as the date column, else the
\* first column named date, timestamp or time (in any case) is used, and
\* only without such a column the first column of the table
C19_DateSource ==
    (pc = "prepared" /\ ~prepRaised) =>
        ColNamed(SelectColumns(data), "ds").holds = ClaimedDateSource(data)

\* ------------------------------------------ AssetDataFetcher.get_stock_data
\* what a source answers: it raises, it has no data, or it delivers a table
\* of some rows
Answers ==
    {[kind |-> "raises", rows |-> 0], [kind |-> "nodata", rows |-> 0]} \cup
    {[kind |-> "data", rows |-> n] : n \in 1..MaxRows}

NoTable == [null |-> TRUE, source |-> "none", rows |-> 0]

TableFrom(source, answer) == [null |-> FALSE, source |-> source, rows |-> answer.rows]

\* a caller calls get_stock_data(symbol); the answers are those the three
\* sources will give when asked
InitStock ==
    /\ stock \in [pc : {"yahoo"},
                  yahoo : Answers, polygon : Answers, alpha : Answers,
                  queried : {<< >>},
                  result : {NoTable}]
    /\ ForecastIdle
    /\ IdleExcept({"stock"})

\* data_fetchers.py lines 211-217: Yahoo Finance; an exception of
\* ticker.history leaves the try block for line 231
QueryYahoo ==
    /\ stock.pc = "yahoo"
    /\ UNCHANGED <<forecastVars, app, fred, analysis, confidence, technical>>
    /\ \/ /\ stock.yahoo.kind = "data"
          /\ stock' = [stock EXCEPT !.pc = "done", !.queried = Append(@, "yahoo"),
                                    !.result = TableFrom("yahoo", stock.yahoo)]
       \/ /\ stock.yahoo.kind = "nodata"
          /\ stock' = [stock EXCEPT !.pc = "polygon", !.queried = Append(@, "yahoo")]
       \/ /\ stock.yahoo.kind = "raises"
          /\ stock' = [stock EXCEPT !.pc = "done", !.queried = Append(@, "yahoo"),
                                    !.result = NoTable]

\* lines 219-222 and 129-166: get_polygon_data returns None when it has no
\* results and when anything raises
QueryPolygon ==
    /\ stock.pc = "polygon"
    /\ UNCHANGED <<forecastVars, app, fred, analysis, confidence, technical>>
    /\ \/ /\ stock.polygon.kind = "data"
          /\ stock' = [stock EXCEPT !.pc = "done", !.queried = Append(@, "polygon"),
                                    !.result = TableFrom("polygon", stock.polygon)]
       \/ /\ stock.polygon.kind # "data"
          /\ stock' = [stock EXCEPT !.pc = "alpha", !.queried = Append(@, "polygon")]

\* lines 224-233 and 168-204: Alpha Vantage, then the ValueError that the
\* except branch turns into None
QueryAlphaVantage ==
    /\ stock.pc = "alpha"
    /\ UNCHANGED <<forecastVars, app, fred, analysis, confidence, technical>>
    /\ \/ /\ stock.alpha.kind = "data"
          /\ stock' = [stock EXCEPT !.pc = "done", !.queried = Append(@, "alpha"),
                                    !.result = TableFrom("alpha", stock.alpha)]
       \/ /\ stock.alpha.kind # "data"
          /\ stock' = [stock EXCEPT !.pc = "done", !.queried = Append(@, "alpha"),
                                    !.result = NoTable]

NextStock == QueryYahoo \/ QueryPolygon \/ QueryAlphaVantage

SpecStock == InitStock /\ [][NextStock]_vars

\* C20: get_stock_data queries Yahoo Finance, Polygon, Alpha Vantage in that
\* order; a later source is queried exactly when every earlier source failed
\* or yielded no data; the first source that has data determines the
\* result; null is returned only after all three were tried without data
C20_FallbackOrder ==
    stock.pc = "done" =>
        LET asked(s) == \E i \in 1..Len(stock.queried) : stock.queried[i] = s
        IN /\ stock.queried = SubSeq(<<"yahoo", "polygon", "alpha">>, 1, Len(stock.queried))
           /\ asked("yahoo")
           /\ asked("polygon") <=> stock.yahoo.kind # "data"
           /\ asked("alpha") <=> (stock.yahoo.kind # "data" /\ stock.polygon.kind # "data")
           /\ stock.result =
                 (IF stock.yahoo.kind = "data" THEN TableFrom("yahoo", stock.yahoo)
                  ELSE IF stock.polygon.kind = "data" THEN TableFrom("polygon", stock.polygon)
                  ELSE IF stock.alpha.kind = "data" THEN TableFrom("alpha", stock.alpha)
                  ELSE NoTable)
           /\ stock.result.null => Len(stock.queried) = 3

\* C21: main never hands a null forecast to a downstream step:
\* create_forecast_plot, display_metrics, display_components and
\* calculate_accuracy run only when prophet_forecast returned a forecast;
\* for every failure pair (None, message), the empty message included, main
\* reports the error and stops before those steps
C21_NoNullDownstream ==
    (app.pc \in {"returned", "handled", "shown"} /\ app.calls > 0) =>
        /\ app.downstream # << >> => ~outcome.forecast.null
        /\ outcome.forecast.null => (app.pc = "returned" /\ app.downstream = << >>)

\* ------------------------------------------- properties of display_metrics
\* C22: the display_metrics in effect forwards the asset type to the metric
\* helpers: for crypto the forecasted price shown and its change are those
\* of the last forecast row, not clipped to [0.5x, 2x] of the current
\* price, and for stocks display_stock_metrics is invoked
C22_AssetTypeForwarded ==
    confidence.pc = "done" =>
        /\ (confidence.asset_type = "crypto" /\ Len(confidence.forecast) > 0) =>
               /\ confidence.forecasted_price =
                      Metric(display_common_metrics(confidence.current_price,
                                                    confidence.forecast, "crypto").price)
               /\ confidence.forecast_change =
                      Metric(display_common_metrics(confidence.current_price,
                                                    confidence.forecast, "crypto").change)
        /\ confidence.asset_type = "stocks" =>
               \E i \in 1..Len(confidence.called) :
                   confidence.called[i] = "display_stock_metrics"

\* ---------------------------------------- properties of analyze_indicator
\* C23: analyze_indicator returns the empty map only for a null or empty
\* series: for a series of one observation or more the returned map holds
\* current_value, min_value, max_value and avg_value
C23_EmptyOnlyForNoData ==
    analysis.pc = "done" =>
        (analysis.stats.empty <=> (analysis.df.null \/ Len(analysis.df.value) = 0))

====
